---- MODULE Spec2Model ----
(***************************************************************************)
(* GaruduaEye: the THB/USD exchange rate monitor.                          *)
(*                                                                         *)
(* Two programs are modelled:                                              *)
(*   - the SMS alert service (src/sms-service.js): the activeAlerts Map    *)
(*     and the handlers of /api/register-alert, /api/check-alerts and      *)
(*     /api/reset-alerts, with the suspension of /api/check-alerts at its  *)
(*     awaited client.messages.create;                                     *)
(*   - the browser monitor (src/unnamed/part_000, class                    *)
(*     ExchangeRateMonitor): alertSettings, the settings form, the         *)
(*     persisted settings, fetchCurrentRate and checkAlerts; and its       *)
(*     analytics: historicalData, calculateProjection and the investment   *)
(*     recommendation.                                                     *)
(*                                                                         *)
(* Rates and thresholds are small naturals (a fixed-point scale of the     *)
(* USD-per-THB rate); 0 is the value JavaScript treats as falsy.           *)
(***************************************************************************)
EXTENDS Integers, Sequences, FiniteSets, TLC

\* ------------------------------------------------------------------ bounds
MaxRate == 2
MaxThreshold == 2
MaxAlerts == 2
NumReqs == 2
MaxTriggered == 2
MaxNotices == 2
MaxDay == 1
MaxBase == 2
MaxStep == 2
LongPeriod == 15
MaxTrend == 6
MaxVolatility == 7

Phones == {"+66811", "+66822"}
NoPhone == ""
Rates == 0..MaxRate
Thresholds == 0..MaxThreshold
Reqs == 1..NumReqs

\* A threshold that is a text without a number in it ("abc"), as a JSON body
\* can carry it: truthy, and in no order with any rate.
NotNumeric == 0 - 2
ThresholdInputs == Thresholds \cup {NotNumeric}
\* The request slot of the one periodic caller of /api/check-alerts.
Caller == CHOOSE q \in Reqs : \A o \in Reqs : q <= o

\* ------------------------------------------------------------------ state
VARIABLES
    program,       \* which program, or which part of the browser monitor, this
                   \* behaviour is a run of
    client,        \* service: TRUE iff the Twilio client was constructed
    activeAlerts,  \* service: the Map, as its entries in insertion order
    req,           \* service: the /api/check-alerts requests (idle or suspended)
    status,        \* service: the body /api/alerts-status last answered with
    currentRate,   \* browser: ExchangeRateMonitor.currentRate
    alertSettings, \* browser: ExchangeRateMonitor.alertSettings
    storage,       \* browser: localStorage's alertPhone, alertThreshold, alertEnabled
    alertsShown,   \* browser: the alerts triggerAlert has put on the page
    today,         \* browser: the day new Date() falls on
    historicalData,\* browser: ExchangeRateMonitor.historicalData
    projection,    \* browser: what updateProjectionDisplay was last given
    recommendation,\* browser: what updateInvestmentRecommendation last showed
    mon,           \* observer: per alert id, where its crossing episode stands
    armed,         \* observer: the browser rule has not alerted in its crossing
    race,          \* observer: one check-alerts request and the edit made during it
    tick           \* observer: the parity of the number of steps taken

serviceVars == <<client, activeAlerts, req>>
browserVars == <<currentRate, alertSettings, storage, alertsShown>>
vars == <<program, client, activeAlerts, req, status, currentRate, alertSettings,
          storage, alertsShown, today, historicalData, projection,
          recommendation, mon, armed, race, tick>>

\* ------------------------------------------------ the alert store (a Map)
\* `${phoneNumber}_${threshold}`: the thresholds are numbers, so the text after
\* the last underscore is the threshold and the pair is recovered from the id.
AlertId(phoneNumber, threshold) == <<phoneNumber, "_", threshold>>

Keys == {AlertId(p, t) : p \in Phones, t \in Thresholds \ {0}}

\* The object register-alert stores (createdAt, a timestamp nothing reads to
\* decide anything, is left out; triggeredAt is kept as "is set").
NewAlert(phoneNumber, threshold) ==
    [alertId |-> AlertId(phoneNumber, threshold),
     phoneNumber |-> phoneNumber,
     threshold |-> threshold,
     triggered |-> FALSE,
     triggeredAt |-> FALSE]

\* Position of key k in the Map's entry list, 0 when absent.
MapIndex(m, k) ==
    IF \E i \in 1..Len(m) : m[i].alertId = k
    THEN CHOOSE i \in 1..Len(m) : m[i].alertId = k
    ELSE 0

MapHas(m, k) == MapIndex(m, k) # 0

\* Map.prototype.set: an existing key keeps its place and gets the new value,
\* a new key is appended.
MapSet(m, k, v) ==
    IF MapHas(m, k)
    THEN [m EXCEPT ![MapIndex(m, k)] = v]
    ELSE Append(m, v)

\* Map.prototype.delete.
MapDelete(m, k) ==
    IF MapHas(m, k)
    THEN [i \in 1..(Len(m) - 1) |-> IF i < MapIndex(m, k) THEN m[i] ELSE m[i + 1]]
    ELSE m

IdleReq == [pc |-> "idle", currentRate |-> 0, idx |-> 0, alertId |-> <<>>,
            attached |-> FALSE, triggeredAlerts |-> 0]

\* ------------------------------------------------------- /api/check-alerts
\* The guard of the alert loop (and, for comparison, the guard that would
\* let a rate equal to the threshold pass).
ShouldTriggerStrict(alert, rate) ==
    ~alert.triggered /\ alert.threshold # NotNumeric /\ rate > alert.threshold

\* JavaScript's >= of a number and a threshold.
Geq(rate, threshold) == threshold # NotNumeric /\ rate >= threshold

ShouldTrigger(alert, rate) ==
    ~alert.triggered /\ Geq(rate, alert.threshold)

\* The loop from entry i on, with a client: the first entry the loop sends
\* for (where the handler suspends), 0 when the loop runs to its end.
RECURSIVE NextToSend(_, _, _)
NextToSend(alerts, i, rate) ==
    IF i > Len(alerts) THEN 0
    ELSE IF ShouldTrigger(alerts[i], rate) THEN i
    ELSE NextToSend(alerts, i + 1, rate)

\* alert.triggered = true; alert.triggeredAt = new Date()
MarkTriggered(alert) == [alert EXCEPT !.triggered = TRUE, !.triggeredAt = TRUE]

\* The loop without a client: nothing is awaited, every entry that passes the
\* guard is marked in the same turn.
DemoLoop(alerts, rate) ==
    [i \in 1..Len(alerts) |->
        IF ShouldTrigger(alerts[i], rate)
        THEN MarkTriggered(alerts[i]) ELSE alerts[i]]

\* The handler up to its first await, or to its response.
CheckAlertsStart(q, rate) ==
    /\ req[q].pc = "idle"
    /\ UNCHANGED client
    /\ IF rate = 0
       THEN UNCHANGED <<activeAlerts, req>>
       ELSE IF ~client
       THEN /\ activeAlerts' = DemoLoop(activeAlerts, rate)
            /\ UNCHANGED req
       ELSE LET j == NextToSend(activeAlerts, 1, rate) IN
            /\ UNCHANGED activeAlerts
            /\ req' = IF j = 0 THEN req
                      ELSE [req EXCEPT ![q] =
                                [pc |-> "send", currentRate |-> rate,
                                 idx |-> j, alertId |-> activeAlerts[j].alertId,
                                 attached |-> TRUE, triggeredAlerts |-> 0]]

\* The length of triggeredAlerts after a send settled: triggeredAlerts.push
\* comes after the await, inside the try (and, for comparison, a push that
\* is reached whatever the send did).
PushedAlways(count, ok) == count + 1

Pushed(count, ok) == IF ok THEN count + 1 ELSE count

\* The responses of the handler: 400 without a currentRate, else 200 with
\* the length of triggeredAlerts (the alerts array has that many entries).
BadRequest == [status |-> 400, success |-> FALSE]

CheckAlertsResponse(count) ==
    [status |-> 200, success |-> TRUE, triggeredAlerts |-> count]

\* The response of a request whose last send settles with ok.
SendResponse(q, ok) == CheckAlertsResponse(Pushed(req[q].triggeredAlerts, ok))

\* client.messages.create settles (ok: resolved, ~ok: rejected) and the
\* handler runs on to its next await, or to its response. The length of the
\* triggeredAlerts array is capped at MaxTriggered.
SendDone(q, ok) ==
    /\ req[q].pc = "send"
    /\ ok => req[q].triggeredAlerts < MaxTriggered
    /\ UNCHANGED client
    /\ LET r == req[q]
           marked == IF ok /\ r.attached
                     THEN [activeAlerts EXCEPT ![r.idx] = MarkTriggered(@)]
                     ELSE activeAlerts
           count == Pushed(r.triggeredAlerts, ok)
           j == NextToSend(marked, r.idx + 1, r.currentRate)
       IN
       /\ activeAlerts' = marked
       /\ req' = [req EXCEPT ![q] =
                    IF j = 0 THEN IdleReq
                    ELSE [r EXCEPT !.idx = j, !.alertId = marked[j].alertId,
                                   !.attached = TRUE, !.triggeredAlerts = count]]

\* ----------------------------------------------------- /api/register-alert
\* A suspended request holds a reference to the alert object it sends for and
\* a live iterator of the Map: replacing the value of its key detaches the
\* object, deleting an entry at or before its position moves the iterator.
Detach(k) ==
    [q \in Reqs |->
        IF req[q].pc = "send" /\ req[q].attached /\ req[q].alertId = k
        THEN [req[q] EXCEPT !.attached = FALSE]
        ELSE req[q]]

Unlink(k) ==
    LET at == MapIndex(activeAlerts, k) IN
    [q \in Reqs |->
        IF req[q].pc = "send" /\ at # 0 /\ at <= req[q].idx
        THEN [req[q] EXCEPT !.idx = @ - 1,
                            !.attached = (@ /\ at # req[q].idx)]
        ELSE req[q]]

\* What a request that passes the validation does to the Map.
Registered(alerts, phoneNumber, threshold, enabled) ==
    IF enabled
    THEN MapSet(alerts, AlertId(phoneNumber, threshold),
                NewAlert(phoneNumber, threshold))
    ELSE MapDelete(alerts, AlertId(phoneNumber, threshold))

\* The store holds at most MaxAlerts entries.
RegisterAlert(phoneNumber, threshold, enabled) ==
    /\ UNCHANGED client
    /\ IF phoneNumber = NoPhone \/ threshold = 0
       THEN UNCHANGED <<activeAlerts, req>>
       ELSE LET alertId == AlertId(phoneNumber, threshold) IN
            /\ enabled /\ ~MapHas(activeAlerts, alertId)
                    => Len(activeAlerts) < MaxAlerts
            /\ activeAlerts' = Registered(activeAlerts, phoneNumber,
                                          threshold, enabled)
            /\ req' = IF enabled THEN Detach(alertId) ELSE Unlink(alertId)

\* The response of the handler.
RegisterResponse(phoneNumber, threshold, enabled) ==
    IF phoneNumber = NoPhone \/ threshold = 0
    THEN [status |-> 400, success |-> FALSE]
    ELSE [status |-> 200, success |-> TRUE]

\* ------------------------------------------------------ /api/alerts-status
\* A phone number as the text it is: its characters one by one.
Digits == {"0", "1", "2", "3", "4", "5", "6", "7", "8", "9"}
Star == "*"

\* /(\d{3})\d{4}(\d{4})/: three digits kept, four hidden, four kept.
MaskHead == 3
MaskHidden == 4
MaskTail == 4
MaskRun == MaskHead + MaskHidden + MaskTail

\* The regular expression matches at position i of the text.
MatchesAt(text, i) ==
    /\ i + MaskRun - 1 <= Len(text)
    /\ \A j \in i..(i + MaskRun - 1) : text[j] \in Digits

\* String.prototype.replace with a pattern without the g flag: the leftmost
\* match is replaced by '$1****$2', a text without a match is returned as is.
Mask(text) ==
    IF \E i \in 1..Len(text) : MatchesAt(text, i)
    THEN LET at == CHOOSE i \in 1..Len(text) :
                      /\ MatchesAt(text, i)
                      /\ \A j \in 1..(i - 1) : ~MatchesAt(text, j)
         IN [j \in 1..Len(text) |->
                IF j >= at + MaskHead /\ j < at + MaskHead + MaskHidden
                THEN Star ELSE text[j]]
    ELSE text

NoStatus == [success |-> FALSE, totalAlerts |-> 0, alerts |-> <<>>,
             twilioConfigured |-> FALSE]

\* The body of the response (createdAt, which nothing decides on, left out).
AlertsStatus(alerts, configured) ==
    [success |-> TRUE,
     totalAlerts |-> Len(alerts),
     alerts |-> [i \in 1..Len(alerts) |->
                    [phoneNumber |-> Mask(alerts[i].phoneNumber),
                     threshold |-> alerts[i].threshold,
                     triggered |-> alerts[i].triggered,
                     triggeredAt |-> alerts[i].triggeredAt]],
     twilioConfigured |-> configured]

GetAlertsStatus ==
    /\ status' = AlertsStatus(activeAlerts, client)
    /\ UNCHANGED <<client, activeAlerts, req>>

\* -------------------------------------------------------- /api/reset-alerts
ResetAllKeepsStamp(alerts) ==
    [i \in 1..Len(alerts) |-> [alerts[i] EXCEPT !.triggered = FALSE]]

\* alert.triggered = false; delete alert.triggeredAt, for every entry.
ResetAll(alerts) ==
    [i \in 1..Len(alerts) |->
        [alerts[i] EXCEPT !.triggered = FALSE, !.triggeredAt = FALSE]]

ResetAlerts ==
    /\ UNCHANGED <<client, req>>
    /\ activeAlerts' = ResetAll(activeAlerts)

\* ------------------------------------------------------ the browser monitor
\* parseFloat's NaN, a number distinct from every threshold.
NaN == 0 - 1
Null == "<null>"

\* JavaScript's !x for a number.
Falsy(x) == x = NaN \/ x = 0

\* threshold.toString()
NumberToString(x) == IF x = NaN THEN "NaN" ELSE ToString(x)

\* parseFloat of the texts the threshold field and the storage can hold.
ParseFloat(s) ==
    IF \E n \in Thresholds : ToString(n) = s
    THEN CHOOSE n \in Thresholds : ToString(n) = s
    ELSE NaN

ThresholdTexts == {"", "abc"} \cup {ToString(n) : n \in Thresholds}

DefaultSettings == [phoneNumber |-> NoPhone, threshold |-> 0, enabled |-> FALSE]

EmptyStorage == [alertPhone |-> Null, alertThreshold |-> Null, alertEnabled |-> Null]

\* What loadAlertSettings makes of the storage.
LoadedSettings(st) ==
    [phoneNumber |-> IF st.alertPhone = Null THEN NoPhone ELSE st.alertPhone,
     threshold |-> IF Falsy(ParseFloat(st.alertThreshold)) THEN 0
                   ELSE ParseFloat(st.alertThreshold),
     enabled |-> st.alertEnabled = "true"]

\* Whether checkAlerts calls triggerAlert (and, for comparison, a checkAlerts
\* without the test of enabled).
TriggersAlertAlways(settings, rate) ==
    ~Falsy(settings.threshold) /\ rate >= settings.threshold

TriggersAlert(settings, rate) ==
    /\ settings.enabled
    /\ ~Falsy(settings.threshold)
    /\ rate >= settings.threshold

\* new ExchangeRateMonitor(), to the first await of init(), on a fresh page.
Construct ==
    /\ currentRate' = 0
    /\ alertSettings' = LoadedSettings(storage)
    /\ alertsShown' = 0
    /\ UNCHANGED storage

SaveAlertSettings(phoneNumber, thresholdText, enabled) ==
    LET threshold == ParseFloat(thresholdText) IN
    /\ UNCHANGED <<currentRate, alertsShown>>
    /\ IF enabled /\ (phoneNumber = NoPhone \/ Falsy(threshold))
       THEN UNCHANGED <<alertSettings, storage>>
       ELSE /\ alertSettings' = [phoneNumber |-> phoneNumber,
                                 threshold |-> threshold, enabled |-> enabled]
            /\ storage' = [alertPhone |-> phoneNumber,
                           alertThreshold |-> NumberToString(threshold),
                           alertEnabled |-> IF enabled THEN "true" ELSE "false"]

\* fetchCurrentRate, the upstream answering with rate (1 / data.rates.THB),
\* then checkAlerts on it. The page shows at most MaxNotices alerts.
FetchCurrentRateOk(rate) ==
    /\ TriggersAlert(alertSettings, rate) => alertsShown < MaxNotices
    /\ currentRate' = rate
    /\ alertsShown' = IF TriggersAlert(alertSettings, rate)
                      THEN alertsShown + 1 ELSE alertsShown
    /\ UNCHANGED <<alertSettings, storage>>

\* fetchCurrentRate, the fetch failing: the synthetic rate, no checkAlerts
\* (and, for comparison, a catch block that would run checkAlerts on it).
FetchCurrentRateFailChecks(rate) == FetchCurrentRateOk(rate)

FetchCurrentRateFail(rate) ==
    /\ currentRate' = rate
    /\ UNCHANGED <<alertSettings, storage, alertsShown>>

\* ------------------------------------------------- the browser's analytics
\* The displays that were not written yet.
NotShown == <<>>
NoRecommendation == [signal |-> "", risk |-> ""]

\* Numbers that are not integers are fractions <<numerator, denominator>> in
\* lowest terms with a positive denominator.
RECURSIVE Gcd(_, _)
Gcd(a, b) == IF b = 0 THEN a ELSE Gcd(b, a % b)

Abs(a) == IF a < 0 THEN 0 - a ELSE a

Frac(num, den) ==
    LET n == IF den < 0 THEN 0 - num ELSE num
        d == Abs(den)
        g == Gcd(Abs(n), d)
    IN <<n \div g, d \div g>>

Int2Frac(a) == <<a, 1>>
FracAdd(x, y) == Frac(x[1] * y[2] + y[1] * x[2], x[2] * y[2])
FracSub(x, y) == Frac(x[1] * y[2] - y[1] * x[2], x[2] * y[2])
FracMul(x, y) == Frac(x[1] * y[1], x[2] * y[2])
FracDiv(x, y) == Frac(x[1] * y[2], x[2] * y[1])

\* data.slice(-count)
SliceLast(data, count) ==
    IF Len(data) <= count THEN data
    ELSE SubSeq(data, Len(data) - count + 1, Len(data))

\* reduce((sum, x) => sum + x, 0) over the first i entries of a sequence.
RECURSIVE SumSeq(_, _)
SumSeq(xs, i) == IF i = 0 THEN 0 ELSE SumSeq(xs, i - 1) + xs[i]

\* calculateProjection, with the window of the regression and the distance
\* of the projected point as the source has them.
ProjectionWindow == 14
DaysAhead == 7
MinProjectionPoints == 5

CalculateProjection(data) ==
    IF Len(data) < MinProjectionPoints THEN Int2Frac(0)
    ELSE LET recentData == SliceLast(data, ProjectionWindow)
             n == Len(recentData)
             sumX == SumSeq([i \in 1..n |-> i - 1], n)
             sumY == SumSeq([i \in 1..n |-> recentData[i].rate], n)
             sumXY == SumSeq([i \in 1..n |-> (i - 1) * recentData[i].rate], n)
             sumXX == SumSeq([i \in 1..n |-> (i - 1) * (i - 1)], n)
             slope == Frac(n * sumXY - sumX * sumY, n * sumXX - sumX * sumX)
             intercept == FracDiv(FracSub(Int2Frac(sumY),
                                          FracMul(slope, Int2Frac(sumX))),
                                  Int2Frac(n))
             futureX == n + DaysAhead
             projectedRate == FracAdd(FracMul(slope, Int2Frac(futureX)), intercept)
             latestRate == Int2Frac(data[Len(data)].rate)
         IN FracMul(FracDiv(FracSub(projectedRate, latestRate), latestRate),
                    Int2Frac(100))

\* getPeriodDays: '7d' as it is, the longer periods ('30d', '90d', '1y')
\* stood for by one that is longer than the regression window.
PeriodDays == {7, LongPeriod}

\* generateSimulatedHistoricalData: one point per day from days ago to today,
\* the rates a random walk (rates holds the days + 1 numbers it takes).
GenerateSimulatedHistoricalData(days, rates) ==
    [i \in 1..(days + 1) |->
        [timestamp |-> today - days + (i - 1), rate |-> rates[i]]]

\* The walks followed: a ramp from base with a constant step, one of its
\* points (none when at = 0; else the oldest, the middle or the latest one)
\* pushed up by one.
Walk(base, step, length, at) ==
    [i \in 1..length |-> base + step * (i - 1) + (IF i = at THEN 1 ELSE 0)]

Walks(length) ==
    {Walk(b, s, length, k) : b \in 1..MaxBase, s \in 0..MaxStep,
                            k \in {0, 1, length \div 2, length}}

\* updateTrendAnalysis, what it gives updateProjectionDisplay.
ProjectionShown(data) ==
    IF Len(data) < 2 THEN projection ELSE CalculateProjection(data)

\* fetchHistoricalData(period) and, in the same turn, updateTrendAnalysis:
\* the period buttons and the hourly timer.
FetchHistoricalData(days, rates) ==
    /\ historicalData' = GenerateSimulatedHistoricalData(days, rates)
    /\ projection' = ProjectionShown(historicalData')
    /\ UNCHANGED <<today, recommendation>>

\* updateTrendAnalysis on the series held.
UpdateTrendAnalysis ==
    /\ projection' = ProjectionShown(historicalData)
    /\ UNCHANGED <<today, historicalData, recommendation>>

\* calculateTrend and calculateVolatility give percentages; they are followed
\* in halves of a percent, so that 0.5 is a number of the model.
Trends == (0 - MaxTrend)..MaxTrend
Volatilities == 0..MaxVolatility
StrongTrend == 4
ModerateTrend == 1
WeakTrend == 0 - 4
LowVolatility == 4
ModerateVolatility == 6
MinRecommendationPoints == 7

\* The investment logic of updateInvestmentRecommendation (and, for
\* comparison, one whose second branch does not look at the volatility).
RecommendationAnyVolatility(trend7d, volatility) ==
    IF trend7d > StrongTrend /\ volatility < LowVolatility
    THEN [signal |-> "STRONG BUY SIGNAL", risk |-> "Low"]
    ELSE IF trend7d > ModerateTrend
    THEN [signal |-> "MODERATE BUY", risk |-> "Medium"]
    ELSE IF trend7d < WeakTrend
    THEN [signal |-> "HOLD/WAIT", risk |-> "High if converting now"]
    ELSE [signal |-> "NEUTRAL", risk |-> "Medium"]

Recommendation(trend7d, volatility) ==
    IF trend7d > StrongTrend /\ volatility < LowVolatility
    THEN [signal |-> "STRONG BUY SIGNAL", risk |-> "Low"]
    ELSE IF trend7d > ModerateTrend /\ volatility < ModerateVolatility
    THEN [signal |-> "MODERATE BUY", risk |-> "Medium"]
    ELSE IF trend7d < WeakTrend
    THEN [signal |-> "HOLD/WAIT", risk |-> "High if converting now"]
    ELSE [signal |-> "NEUTRAL", risk |-> "Medium"]

\* updateInvestmentRecommendation, calculateTrend having given trend7d and
\* calculateVolatility volatility for the series held.
UpdateInvestmentRecommendation(trend7d, volatility) ==
    /\ recommendation' =
          IF Len(historicalData) < MinRecommendationPoints THEN recommendation
          ELSE [trend7d |-> trend7d, volatility |-> volatility,
                signal |-> Recommendation(trend7d, volatility).signal,
                risk |-> Recommendation(trend7d, volatility).risk]
    /\ UNCHANGED <<today, historicalData, projection>>

\* Midnight passes.
NextDay ==
    /\ today < MaxDay
    /\ today' = today + 1
    /\ UNCHANGED <<historicalData, projection, recommendation>>

\* ------------------------------------------------------------ the observer
\* mon[k], the crossing episode of alert k as an onlooker of the service
\* sees it:
\*   "NONE"     not registered, or removed;
\*   "ARMED"    registered or reset, no fire decision since;
\*   "FIRED"    a fire decision was made, its send is not settled;
\*   "SENT"     the message of the episode was delivered;
\*   "FAILED"   the send of the episode was rejected;
\*   "REARMED"  after a fire decision, an evaluation saw the rate below the
\*              threshold.
Flipped(i) ==
    /\ i <= Len(activeAlerts')
    /\ activeAlerts'[i].triggered /\ ~activeAlerts[i].triggered

\* The entries from..to were evaluated at rate by request q in this step.
MonLoop(m, q, from, to, rate) ==
    [k \in Keys |->
        LET i == MapIndex(activeAlerts, k) IN
        IF i = 0 \/ i < from \/ i > to THEN m[k]
        ELSE IF ~client /\ Flipped(i) THEN "SENT"
        ELSE IF client /\ req'[q].pc = "send" /\ req'[q].idx = i THEN "FIRED"
        ELSE IF rate < activeAlerts[i].threshold /\ m[k] \notin {"NONE", "ARMED"}
        THEN "REARMED"
        ELSE m[k]]

LoopEnd(q) ==
    IF client /\ req'[q].pc = "send" THEN req'[q].idx ELSE Len(activeAlerts)

WatchCheck(q, rate) ==
    mon' = IF rate = 0 THEN mon ELSE MonLoop(mon, q, 1, LoopEnd(q), rate)

WatchSend(q, ok) ==
    LET r == req[q]
        settled == IF r.attached
                   THEN [mon EXCEPT ![r.alertId] = IF ok THEN "SENT" ELSE "FAILED"]
                   ELSE mon
    IN mon' = MonLoop(settled, q, r.idx + 1, LoopEnd(q), r.currentRate)

WatchRegister(phoneNumber, threshold, enabled) ==
    mon' = IF AlertId(phoneNumber, threshold) \notin Keys THEN mon
           ELSE [mon EXCEPT ![AlertId(phoneNumber, threshold)] =
                    IF enabled THEN "ARMED" ELSE "NONE"]

WatchReset ==
    mon' = [k \in Keys |-> IF MapHas(activeAlerts, k) THEN "ARMED" ELSE mon[k]]

\* armed, the browser rule as an onlooker sees it: TRUE from a save, a fresh
\* page or a rate seen below the threshold, until triggerAlert is called.
WatchRefresh(rate) ==
    armed' = IF alertsShown' # alertsShown THEN FALSE
             ELSE IF rate < alertSettings.threshold THEN TRUE
             ELSE armed

\* race, one request of the caller from its start to its response:
\*   base      the Map when the request started,
\*   rate      its currentRate,
\*   attempts  the ids client.messages.create was called for,
\*   edit      the register-alert or reset-alerts request served while it was
\*             suspended (at most one is followed),
\*   failed    the ids client.messages.create was rejected for,
\*   response  the response, once sent,
\*   done      the response was sent.
NoRace == [on |-> FALSE]
NoEdit == <<"none">>
NoResponse == [status |-> 0, success |-> FALSE]

RaceStarts(q, rate) ==
    race' = IF req'[q].pc = "send"
            THEN [on |-> TRUE, base |-> activeAlerts, rate |-> rate,
                  attempts |-> {req'[q].alertId}, edit |-> NoEdit,
                  failed |-> {}, response |-> NoResponse, done |-> FALSE]
            ELSE NoRace

RaceGoesOn(q, ok) ==
    LET failed == IF ok THEN race.failed ELSE race.failed \cup {req[q].alertId} IN
    race' = IF req'[q].pc = "send"
            THEN [race EXCEPT !.attempts = @ \cup {req'[q].alertId},
                              !.failed = failed]
            ELSE [race EXCEPT !.failed = failed,
                              !.response = SendResponse(q, ok),
                              !.done = TRUE]

\* ------------------------------------------------------------------- steps
Tick == tick' = 1 - tick
BrowserIdle == UNCHANGED <<currentRate, alertSettings, storage, alertsShown, armed>>
ServiceIdle == UNCHANGED <<client, activeAlerts, req, mon, race>>
AnalyticsIdle == UNCHANGED <<today, historicalData, projection, recommendation>>
StatusIdle == UNCHANGED status

RegisterStep(p, t, e) ==
    /\ program = "service"
    /\ RegisterAlert(p, t, e)
    /\ WatchRegister(p, t, e)
    /\ Tick /\ UNCHANGED program /\ BrowserIdle /\ AnalyticsIdle /\ StatusIdle

CheckStep(q, r) ==
    /\ program = "service"
    /\ CheckAlertsStart(q, r)
    /\ WatchCheck(q, r)
    /\ Tick /\ UNCHANGED program /\ BrowserIdle /\ AnalyticsIdle /\ StatusIdle

SendStep(q, ok) ==
    /\ program = "service"
    /\ SendDone(q, ok)
    /\ WatchSend(q, ok)
    /\ Tick /\ UNCHANGED program /\ BrowserIdle /\ AnalyticsIdle /\ StatusIdle

ResetStep ==
    /\ program = "service"
    /\ ResetAlerts
    /\ WatchReset
    /\ Tick /\ UNCHANGED program /\ BrowserIdle /\ AnalyticsIdle /\ StatusIdle

RegisterInputs == (Phones \cup {NoPhone}) \X Thresholds \X BOOLEAN

\* The service with its one periodic caller; rules are edited at any time,
\* also while the caller's request is suspended at its send.
Register == \E i \in RegisterInputs : RegisterStep(i[1], i[2], i[3]) /\ UNCHANGED race

Check == \E r \in Rates : CheckStep(Caller, r) /\ UNCHANGED race

Send == \E ok \in BOOLEAN : SendStep(Caller, ok) /\ UNCHANGED race

Reset == ResetStep /\ UNCHANGED race

\* The browser monitor.
Reload ==
    /\ program = "browser"
    /\ Construct
    /\ armed' = TRUE
    /\ Tick /\ UNCHANGED program /\ ServiceIdle /\ AnalyticsIdle /\ StatusIdle

Save ==
    \E p \in Phones \cup {NoPhone}, t \in ThresholdTexts, e \in BOOLEAN :
        /\ program = "browser"
        /\ SaveAlertSettings(p, t, e)
        /\ armed' = (alertSettings' # alertSettings \/ armed)
        /\ Tick /\ UNCHANGED program /\ ServiceIdle /\ AnalyticsIdle /\ StatusIdle

Refresh ==
    \E r \in Rates \ {0} :
        /\ program = "browser"
        /\ FetchCurrentRateOk(r)
        /\ WatchRefresh(r)
        /\ Tick /\ UNCHANGED program /\ ServiceIdle /\ AnalyticsIdle /\ StatusIdle

RefreshFails ==
    \E r \in Rates \ {0} :
        /\ program = "browser"
        /\ FetchCurrentRateFail(r)
        /\ UNCHANGED armed
        /\ Tick /\ UNCHANGED program /\ ServiceIdle /\ AnalyticsIdle /\ StatusIdle

Init ==
    /\ program \in {"service", "browser"}
    /\ client \in (IF program = "service" THEN BOOLEAN ELSE {FALSE})
    /\ activeAlerts = <<>>
    /\ req = [q \in Reqs |-> IdleReq]
    /\ status = NoStatus
    /\ currentRate = 0
    /\ storage = EmptyStorage
    /\ alertSettings = LoadedSettings(EmptyStorage)
    /\ alertsShown = 0
    /\ today = 0
    /\ historicalData = <<>>
    /\ projection = NotShown
    /\ recommendation = NoRecommendation
    /\ mon = [k \in Keys |-> "NONE"]
    /\ armed = TRUE
    /\ race = NoRace
    /\ tick = 0

Next ==
    \/ Register \/ Check \/ Send \/ Reset
    \/ Reload \/ Save \/ Refresh \/ RefreshFails

Spec == Init /\ [][Next]_vars

\* The service alone, its requests served strictly one after the other: no
\* request starts while another is suspended.
AllIdle == \A q \in Reqs : req[q].pc = "idle"

InitService == Init /\ program = "service"

SerialRegister ==
    \E i \in RegisterInputs :
        AllIdle /\ RegisterStep(i[1], i[2], i[3]) /\ UNCHANGED race

SerialCheck == \E r \in Rates : AllIdle /\ CheckStep(Caller, r) /\ UNCHANGED race

SerialSend == \E ok \in BOOLEAN : SendStep(Caller, ok) /\ UNCHANGED race

SerialReset == AllIdle /\ ResetStep /\ UNCHANGED race

SerialNext == SerialRegister \/ SerialCheck \/ SerialSend \/ SerialReset

SpecSerial == InitService /\ [][SerialNext]_vars

\* The service alone with overlapping /api/check-alerts requests.
OverlapRegister ==
    \E i \in RegisterInputs : RegisterStep(i[1], i[2], i[3]) /\ UNCHANGED race

OverlapCheck == \E q \in Reqs, r \in Rates : CheckStep(q, r) /\ UNCHANGED race

OverlapSend == \E q \in Reqs, ok \in BOOLEAN : SendStep(q, ok) /\ UNCHANGED race

OverlapReset == ResetStep /\ UNCHANGED race

OverlapNext == OverlapRegister \/ OverlapCheck \/ OverlapSend \/ OverlapReset

SpecOverlap == InitService /\ [][OverlapNext]_vars

\* The service alone, one request of the caller followed from its start to
\* its response together with the one edit served while it was suspended.
RaceRegister ==
    \E i \in RegisterInputs :
        /\ RegisterStep(i[1], i[2], i[3])
        /\ IF AllIdle THEN race' = NoRace
           ELSE /\ race.edit = NoEdit
                /\ i[1] # NoPhone /\ i[2] # 0
                /\ race' = [race EXCEPT !.edit = <<"register", i[1], i[2], i[3]>>]

RaceReset ==
    /\ ResetStep
    /\ IF AllIdle THEN race' = NoRace
       ELSE /\ race.edit = NoEdit
            /\ race' = [race EXCEPT !.edit = <<"reset">>]

RaceCheck == \E r \in Rates : CheckStep(Caller, r) /\ RaceStarts(Caller, r)

RaceSend == \E ok \in BOOLEAN : SendStep(Caller, ok) /\ RaceGoesOn(Caller, ok)

RaceNext == RaceRegister \/ RaceReset \/ RaceCheck \/ RaceSend

SpecRace == InitService /\ [][RaceNext]_vars

\* The service alone, its requests served one after the other, the bodies of
\* /api/register-alert carrying also a threshold that is not a number.
MalformedInputs == (Phones \cup {NoPhone}) \X ThresholdInputs \X BOOLEAN

MalformedRegister ==
    \E i \in MalformedInputs :
        AllIdle /\ RegisterStep(i[1], i[2], i[3]) /\ UNCHANGED race

MalformedNext == MalformedRegister \/ SerialCheck \/ SerialSend \/ SerialReset

SpecMalformed == InitService /\ [][MalformedNext]_vars

\* The browser's analytics. Its two parts are followed apart: the series with
\* the projection made of it ("history"), and the recommendation made of a
\* trend and a volatility ("advice"). calculateProjection is given series of
\* every length around its short-input guard, also such as no period
\* produces.
ShortLengths == {MinProjectionPoints - 1, MinProjectionPoints}

SeriesInputs ==
    {<<>>} \cup
    {[i \in 1..Len(w) |-> [timestamp |-> i - Len(w), rate |-> w[i]]] :
        w \in UNION {Walks(n) : n \in ShortLengths \cup {d + 1 : d \in PeriodDays}}}

OtherIdle ==
    UNCHANGED <<program, client, activeAlerts, req, status, currentRate,
                alertSettings, storage, alertsShown, mon, armed, race>>

InitAnalytics ==
    /\ program \in {"history", "advice"}
    /\ client = FALSE
    /\ activeAlerts = <<>>
    /\ req = [q \in Reqs |-> IdleReq]
    /\ status = NoStatus
    /\ currentRate = 0
    /\ storage = EmptyStorage
    /\ alertSettings = LoadedSettings(EmptyStorage)
    /\ alertsShown = 0
    /\ today = 0
    /\ historicalData \in (IF program = "history" THEN SeriesInputs
                           ELSE {s \in SeriesInputs : Len(s) \in {0, 8}
                                    /\ \A i \in 1..Len(s) : s[i].rate = 1})
    /\ projection = NotShown
    /\ recommendation = NoRecommendation
    /\ mon = [k \in Keys |-> "NONE"]
    /\ armed = TRUE
    /\ race = NoRace
    /\ tick = 0

PeriodClick ==
    \E days \in PeriodDays : \E rates \in Walks(days + 1) :
        /\ program = "history"
        /\ FetchHistoricalData(days, rates)
        /\ Tick /\ OtherIdle

Analyse ==
    /\ program = "history"
    /\ UpdateTrendAnalysis
    /\ Tick /\ OtherIdle

Midnight ==
    /\ program = "history"
    /\ NextDay
    /\ Tick /\ OtherIdle

Recommend ==
    \E t \in Trends, v \in Volatilities :
        /\ program = "advice"
        /\ UpdateInvestmentRecommendation(t, v)
        /\ Tick /\ OtherIdle

AnalyticsNext == PeriodClick \/ Analyse \/ Midnight \/ Recommend

SpecAnalytics == InitAnalytics /\ [][AnalyticsNext]_vars

\* The service's store read back by /api/alerts-status. The phone numbers are
\* texts of several lengths and formats: an international number of eleven
\* digits with and without its +, the same with another digit in the middle,
\* a national number of ten digits, and a number written with separators.
International == <<"6", "6", "8", "1", "2", "3", "4", "5", "6", "7", "8">>
InternationalOther == <<"6", "6", "8", "1", "2", "9", "4", "5", "6", "7", "8">>
National == <<"0", "8", "1", "2", "3", "4", "5", "6", "7", "8">>
Separated == <<"0", "8", "1", "-", "2", "3", "4", "-", "5", "6", "7", "8">>

PhoneTexts ==
    {International, InternationalOther, <<"+">> \o International,
     <<"+">> \o InternationalOther, National, Separated}

StatusRegister ==
    \E p \in PhoneTexts, e \in BOOLEAN :
        /\ program = "service"
        /\ e /\ ~MapHas(activeAlerts, AlertId(p, MaxThreshold))
                => Len(activeAlerts) < MaxAlerts
        /\ activeAlerts' = Registered(activeAlerts, p, MaxThreshold, e)
        /\ UNCHANGED <<client, req, status, mon, race>>
        /\ Tick /\ UNCHANGED program /\ BrowserIdle /\ AnalyticsIdle

StatusRead ==
    /\ program = "service"
    /\ GetAlertsStatus
    /\ UNCHANGED <<mon, race>>
    /\ Tick /\ UNCHANGED program /\ BrowserIdle /\ AnalyticsIdle

StatusNext == StatusRegister \/ StatusRead

SpecStatus == InitService /\ [][StatusNext]_vars

\* ------------------------------------------------------------- properties
Stored(k) == MapHas(activeAlerts, k)
Entry(k) == activeAlerts[MapIndex(activeAlerts, k)]

\* The step is one of request q running its alert loop.
LoopStep(q) ==
    \/ \E r \in Rates \ {0} : CheckAlertsStart(q, r)
    \/ \E ok \in BOOLEAN : SendDone(q, ok)

\* Request q decides in this step to fire the entry at position i: with a
\* client it is suspended at the send for it, without one it marks it.
Decides(q, i) ==
    IF client THEN req'[q].pc = "send" /\ req'[q].idx = i ELSE Flipped(i)

\* Of the entries from on that request q has evaluated at rate in this step,
\* exactly those fire that are not triggered and have rate >= threshold.
GuardDecides(q, from, rate) ==
    \A i \in from..LoopEnd(q) :
        Decides(q, i) <=>
            (~activeAlerts[i].triggered /\ rate >= activeAlerts[i].threshold)

\* C7 (service): an evaluation by /api/check-alerts fires an alert exactly
\* when the alert is stored (enabled), not triggered, and currentRate is >=
\* its threshold; an alert that is ARMED for the onlooker is never triggered
\* in the store; a request is never suspended at a send for a rate below the
\* threshold.
C7_ServiceGuard ==
    /\ [](\A k \in Keys : Stored(k) /\ mon[k] = "ARMED" => ~Entry(k).triggered)
    /\ [](\A q \in Reqs : req[q].pc = "send" /\ req[q].attached
            => /\ req[q].idx \in 1..Len(activeAlerts)
               /\ req[q].currentRate >= activeAlerts[req[q].idx].threshold)
    /\ [][\A q \in Reqs :
            /\ \A r \in Rates \ {0} :
                    CheckAlertsStart(q, r) => GuardDecides(q, 1, r)
            /\ \A ok \in BOOLEAN :
                    SendDone(q, ok)
                        => GuardDecides(q, req[q].idx + 1, req[q].currentRate)
         ]_vars

\* C7 (browser): a successful refresh calls triggerAlert exactly when the
\* rule is enabled and the fetched rate is >= its threshold, and once.
C7_BrowserGuard ==
    [][\A r \in Rates \ {0} :
          FetchCurrentRateOk(r)
            => /\ alertsShown' \in {alertsShown, alertsShown + 1}
               /\ alertsShown' # alertsShown
                    <=> (alertSettings.enabled /\ r >= alertSettings.threshold)
      ]_vars

C1_FiresOncePerEpisode ==
    [][\A q \in Reqs, k \in Keys :
          LoopStep(q) /\ Stored(k) /\ mon[k] \in {"FIRED", "SENT", "FAILED"}
            => ~Decides(q, MapIndex(activeAlerts, k))
      ]_vars

\* C2: over successful refreshes of the browser monitor, triggerAlert is
\* called only at the refresh that takes the rule's episode from armed to
\* fired, not at later refreshes while the rate stays >= threshold.
C2_TriggerAlertOncePerCrossing ==
    [][\A r \in Rates \ {0} :
          FetchCurrentRateOk(r) /\ alertsShown' # alertsShown => armed
      ]_vars

\* C3: an alert that has fired and was then evaluated with a rate below its
\* threshold fires again at the next /api/check-alerts with currentRate >=
\* threshold, with no reset or re-registration in between (unless the request
\* is suspended at an earlier alert's send).
C3_RearmsBelowThreshold ==
    [][\A q \in Reqs, r \in Rates \ {0}, k \in Keys :
          /\ CheckAlertsStart(q, r)
          /\ Stored(k) /\ mon[k] = "REARMED"
          /\ r >= Entry(k).threshold
          => \/ Decides(q, MapIndex(activeAlerts, k))
             \/ client /\ req'[q].pc = "send"
                       /\ req'[q].idx < MapIndex(activeAlerts, k)
      ]_vars

\* C4: under overlapping /api/check-alerts requests, no request decides to
\* fire an alert while the send of that alert's episode is in flight.
C4_OneSendPerEpisode ==
    [][\A q \in Reqs, k \in Keys :
          LoopStep(q) /\ Stored(k) /\ mon[k] = "FIRED"
            => ~Decides(q, MapIndex(activeAlerts, k))
      ]_vars

\* The alert loop run to its response with nothing served in between, the
\* sends for the ids in fails rejected: the Map it leaves and the ids
\* client.messages.create was called for.
CheckAlertsAlone(alerts, rate, fails) ==
    [alerts |-> [i \in 1..Len(alerts) |->
                    IF ShouldTrigger(alerts[i], rate)
                       /\ alerts[i].alertId \notin fails
                    THEN MarkTriggered(alerts[i]) ELSE alerts[i]],
     attempts |-> IF rate = 0 THEN {}
                  ELSE {alerts[i].alertId : i \in
                           {j \in 1..Len(alerts) : ShouldTrigger(alerts[j], rate)}}]

EditAlone(alerts, edit) ==
    IF edit[1] = "reset" THEN ResetAll(alerts)
    ELSE Registered(alerts, edit[2], edit[3], edit[4])

\* The followed request and the edit served during it left what one of their
\* two serial orders leaves, for some outcome of the sends.
Serializable ==
    \E fails \in SUBSET Keys :
        \/ LET c == CheckAlertsAlone(race.base, race.rate, fails) IN
           /\ activeAlerts = EditAlone(c.alerts, race.edit)
           /\ race.attempts = c.attempts
        \/ LET c == CheckAlertsAlone(EditAlone(race.base, race.edit),
                                     race.rate, fails) IN
           /\ activeAlerts = c.alerts
           /\ race.attempts = c.attempts

\* C5: whenever a /api/register-alert or /api/reset-alerts request was served
\* while a /api/check-alerts request was suspended at its send, the contents
\* of activeAlerts and the set of messages sent at the end equal those of a
\* serial execution of the two requests.
C5_EditSerializable ==
    race.on /\ race.done /\ race.edit # NoEdit => Serializable

\* C6: after the send for an alert was rejected, no /api/check-alerts decides
\* to send for that alert again until it is reset or registered again.
C6_NoRetryAfterFailure ==
    [][\A q \in Reqs, k \in Keys :
          LoopStep(q) /\ Stored(k) /\ mon[k] = "FAILED"
            => ~Decides(q, MapIndex(activeAlerts, k))
      ]_vars

\* C8: a /api/register-alert request with enabled=true, with the threshold
\* the recipient had or another, leaves no stored alert of the recipient
\* triggered.
C8_RegisterArmsRecipient ==
    [][\A p \in Phones, t \in Thresholds \ {0} :
          RegisterAlert(p, t, TRUE)
            => \A i \in 1..Len(activeAlerts') :
                   activeAlerts'[i].phoneNumber = p => ~activeAlerts'[i].triggered
      ]_vars

\* C9: no two stored alerts have the same phoneNumber.
C9_OneAlertPerRecipient ==
    \A i, j \in 1..Len(activeAlerts) :
        activeAlerts[i].phoneNumber = activeAlerts[j].phoneNumber => i = j

\* C10: after a /api/register-alert request with enabled=false for recipient
\* p, whatever its threshold, no alert of p is in activeAlerts.
C10_DisableRemovesRecipient ==
    [][\A p \in Phones, t \in Thresholds \ {0} :
          RegisterAlert(p, t, FALSE)
            => \A i \in 1..Len(activeAlerts') : activeAlerts'[i].phoneNumber # p
      ]_vars

\* C11: in the browser monitor, while alertSettings.enabled is false, no rate
\* refresh (the fetch answering or failing) calls triggerAlert or changes
\* alertSettings, whatever the rate is relative to the threshold.
C11_DisabledNeverEvaluated ==
    [][\A r \in Rates \ {0} :
          (FetchCurrentRateOk(r) \/ FetchCurrentRateFail(r))
          /\ ~alertSettings.enabled
            => alertsShown' = alertsShown /\ alertSettings' = alertSettings
      ]_vars

\* A disabled rule with a threshold has seen a rate at or above it.
C11_Witness ==
    /\ program = "browser"
    /\ ~alertSettings.enabled
    /\ alertSettings.threshold > 0
    /\ currentRate >= alertSettings.threshold
    /\ alertsShown = 0

\* C12 (browser): saveAlertSettings asked to enable with no phone number or
\* with a threshold text that is empty, zero or not a number leaves
\* alertSettings and the persisted settings unchanged.
C12_BrowserRejects ==
    [][\A p \in Phones \cup {NoPhone}, t \in ThresholdTexts :
          (p = NoPhone \/ ParseFloat(t) \notin Thresholds \ {0})
          /\ SaveAlertSettings(p, t, TRUE)
            => alertSettings' = alertSettings /\ storage' = storage
      ]_vars

\* C12: a malformed rule is rejected before any state mutation: a request to
\* /api/register-alert that enables with a missing phone number or a missing,
\* zero or non-numeric threshold is answered success=false and leaves
\* activeAlerts unchanged.
C12_MalformedRejected ==
    [][\A p \in Phones \cup {NoPhone}, t \in ThresholdInputs :
          (p = NoPhone \/ t \notin Thresholds \ {0})
          /\ RegisterAlert(p, t, TRUE)
            => /\ activeAlerts' = activeAlerts
               /\ ~RegisterResponse(p, t, TRUE).success
      ]_vars

\* C13: when the send for an alert fails during /api/check-alerts, the
\* response still completes, not as a 500, and differs from the response of
\* an evaluation in which nothing crossed the threshold.
C13_FailureSurfaced ==
    [][\A q \in Reqs :
          SendDone(q, FALSE) /\ req'[q].pc = "idle"
            => /\ SendResponse(q, FALSE).status # 500
               /\ SendResponse(q, FALSE) # CheckAlertsResponse(0)
      ]_vars

Linear(data) ==
    \A i \in 2..Len(data) :
        data[i].rate - data[i - 1].rate = data[2].rate - data[1].rate

\* C15: for a perfectly linear series rate_i = a + b * i of at least 5
\* points, the projection shown is the line evaluated 7 indices beyond the
\* last point, as a percentage of the last rate: 7 * b / lastRate * 100.
C15_LinearProjection ==
    /\ projection # NotShown
    /\ Len(historicalData) >= 5
    /\ Linear(historicalData)
    => projection = Frac(7 * (historicalData[2].rate - historicalData[1].rate) * 100,
                         historicalData[Len(historicalData)].rate)

\* C16: the projection shown for a series of fewer than 5 points is an
\* outcome that no series of 5 points or more gives as its percentage.
C16_ShortSeriesFails ==
    projection # NotShown /\ Len(historicalData) < 5
    => \A s \in SeriesInputs : Len(s) >= 5 => projection # CalculateProjection(s)

\* C17: a refresh of the historical data leaves every observation that was in
\* the series (one an earlier refresh made), and whose day is still in the
\* span of the series, in the series with its timestamp and its rate (the
\* latest observation, which a refresh on the same day may overwrite, is not
\* even counted).
C17_AppendOnly ==
    [][(/\ historicalData' # historicalData
        /\ historicalData' # <<>>
        /\ Len(historicalData) - 1 \in PeriodDays)
        => \A i \in 1..(Len(historicalData) - 1) :
              historicalData[i].timestamp >= historicalData'[1].timestamp
                => \E j \in 1..Len(historicalData') :
                      historicalData'[j] = historicalData[i]
      ]_vars

\* C18: every phone number /api/alerts-status reads back is partially masked:
\* whatever the length or format of a stored alert's phone number, the
\* phoneNumber of the response shows a text in which some of its digits are
\* hidden, and a phone number that differs from the stored one only in hidden
\* digits is read back as the same text.
HiddenAt(text) == {j \in 1..Len(text) : Mask(text)[j] = Star}

DiffersOnlyHidden(text, other) ==
    /\ Len(other) = Len(text)
    /\ \A j \in 1..Len(text) :
          IF j \in HiddenAt(text) THEN other[j] \in Digits ELSE other[j] = text[j]

C18_StatusMasksPhone ==
    [][StatusRead
        => \A i \in 1..Len(activeAlerts) :
              LET stored == activeAlerts[i].phoneNumber
                  shown == status'.alerts[i].phoneNumber
              IN /\ HiddenAt(stored) # {}
                 /\ shown # stored
                 /\ \A other \in PhoneTexts :
                       DiffersOnlyHidden(stored, other) => Mask(other) = shown
      ]_vars

\* C19: in every reachable state of the store, after any sequence of
\* register-alert, check-alerts and reset-alerts requests, each stored alert
\* has a triggeredAt timestamp if and only if its triggered flag is true.
C19_StampIffTriggered ==
    program = "service"
        => \A i \in 1..Len(activeAlerts) :
              activeAlerts[i].triggeredAt = activeAlerts[i].triggered

\* After a check that had a message sent, one stored alert is triggered and
\* stamped beside one that is neither.
C19_Witness ==
    /\ program = "service"
    /\ \E i \in 1..Len(activeAlerts) :
          activeAlerts[i].triggered /\ activeAlerts[i].triggeredAt
    /\ \E j \in 1..Len(activeAlerts) :
          ~activeAlerts[j].triggered /\ ~activeAlerts[j].triggeredAt

\* C20: a send failure for one alert during /api/check-alerts is isolated to
\* that alert. When the request ran with nothing served in between: a send was
\* attempted for every alert that was stored untriggered with threshold <=
\* currentRate, each of them whose send was not rejected is triggered, the
\* rejected ones are not, the request answers 200 with success=true, and
\* triggeredAlerts is the number of alerts whose triggered flag went from
\* false to true in the request.
Eligible(alerts, rate) ==
    {i \in 1..Len(alerts) : ShouldTrigger(alerts[i], rate)}

FlippedIn(before, after) ==
    {i \in 1..Len(before) : ~before[i].triggered /\ after[i].triggered}

C20_FailureIsolated ==
    (race.on /\ race.done /\ race.edit = NoEdit)
        => /\ race.attempts =
                {race.base[i].alertId : i \in Eligible(race.base, race.rate)}
           /\ \A i \in Eligible(race.base, race.rate) :
                 activeAlerts[i].triggered = (race.base[i].alertId \notin race.failed)
           /\ race.response.status = 200
           /\ race.response.success
           /\ race.response.triggeredAlerts =
                 Cardinality(FlippedIn(race.base, activeAlerts))

\* A request that ran alone has answered: the send for one alert was rejected
\* and the send for an alert later in the Map was accepted.
C20_Witness ==
    /\ race.on /\ race.done /\ race.edit = NoEdit
    /\ \E i, j \in 1..Len(race.base) :
          /\ i < j
          /\ race.base[i].alertId \in race.failed
          /\ j \in FlippedIn(race.base, activeAlerts)
    /\ race.response.triggeredAlerts = 1

\* C21: in the browser monitor, alerts are evaluated only against rates
\* obtained from the upstream source: a fetchCurrentRate that falls back to
\* the synthetic rate after a failure does not run checkAlerts on it, so it
\* calls triggerAlert for no synthetic rate, also not for one >= the
\* threshold of an enabled rule, and leaves the rule as it was.
C21_SyntheticNeverAlerts ==
    [][\A r \in Rates \ {0} :
          FetchCurrentRateFail(r) /\ program = "browser"
            => /\ alertsShown' = alertsShown
               /\ alertSettings' = alertSettings
      ]_vars

\* An enabled rule whose threshold the current rate has reached, with no
\* alert on the page.
C21_Witness ==
    /\ program = "browser"
    /\ alertSettings.enabled
    /\ TriggersAlert(alertSettings, currentRate)
    /\ alertsShown = 0
    /\ armed

====
